---------------------------- MODULE Spec2Model ----------------------------
(***************************************************************************)
(* A state-machine model of ndb.c, the command-line front-end of nostrdb:  *)
(* main()'s settings scan, command dispatch, the search option scan, the   *)
(* query token scan that drives the filter builder, the transaction        *)
(* bracket around the store call, and the result print loops.              *)
(*                                                                         *)
(* A command-line token is a sequence of one-character strings, so that    *)
(* atoi/atol/atoll are modelled by what they parse and strcmp by equality. *)
(* NULL (argv[argc]) is a marker that is no token.  Reading argv past its  *)
(* NULL terminator is undefined: the model lets it yield NULL or a junk    *)
(* string (on the usual ABI envp follows argv).  strcmp on NULL crashes;   *)
(* atoi/atol/atoll on NULL either crash or return a garbage number.        *)
(***************************************************************************)
EXTENDS Integers, Sequences, FiniteSets, TLC

(***************************************************************************)
(* Bounds of the model.                                                    *)
(***************************************************************************)
\* longest stream of well-formed (flag, value) pairs enumerated after `query`
MaxPairs == 3
\* longest token list enumerated after `search`
MaxSearchToks == 4
\* most records the store matches in the general specification
MaxMatch == 2
\* how far past the result capacity the store's match count goes (SpecTrunc)
MaxExcess == 1
\* number of sub-stores and of named content kinds of the statistics; the
\* library's NDB_DBS and NDB_CKIND_COUNT (nostrdb.h), cut down for the model
NDB_DBS == 2
NDB_CKIND_COUNT == 2

(***************************************************************************)
(* Program constants.                                                      *)
(***************************************************************************)
\* for (i = 0; argc && i < 100; i++)
MaxIter == 100
\* for (i = 0; i < 2; i++) of the settings scan and of the search option scan
SettingsIters == 2
SearchIters == 2
\* struct ndb_query_result results[10000];
ResultsLen == 10000
\* enum ndb_filter_fieldtype (nostrdb.h); main only relies on their being
\* distinct and nonzero
NDB_FILTER_KINDS == 3
NDB_FILTER_TAGS == 4
NDB_FILTER_UNTIL == 6
NDB_FILTER_LIMIT == 7
\* NDB_FLAG_SKIP_NOTE_VERIFY (nostrdb.h)
NDB_FLAG_SKIP_NOTE_VERIFY == 2
\* the text search's default result limit (ndb_default_text_search_config)
DefaultSearchLimit == 128

(***************************************************************************)
(* Tokens.                                                                 *)
(***************************************************************************)
NULL == <<"NULL">>
Junk == <<"A", "=", "b">>

T_ndb == <<"n", "d", "b">>
T_d == <<"-", "d">>
T_skip == <<"-", "-", "s", "k", "i", "p", "-", "v", "e", "r", "i", "f", "i", "c", "a", "t", "i", "o", "n">>
T_dir == <<"/", "d", "b">>
T_search == <<"s", "e", "a", "r", "c", "h">>
T_stat == <<"s", "t", "a", "t">>
T_query == <<"q", "u", "e", "r", "y">>
T_import == <<"i", "m", "p", "o", "r", "t">>
T_psk == <<"p", "r", "i", "n", "t", "-", "s", "e", "a", "r", "c", "h", "-", "k", "e", "y", "s">>
T_pkk == <<"p", "r", "i", "n", "t", "-", "k", "i", "n", "d", "-", "k", "e", "y", "s">>
T_ptk == <<"p", "r", "i", "n", "t", "-", "t", "a", "g", "-", "k", "e", "y", "s">>
T_oldest == <<"-", "-", "o", "l", "d", "e", "s", "t", "-", "f", "i", "r", "s", "t">>
T_limit == <<"-", "-", "l", "i", "m", "i", "t">>
T_k == <<"-", "k">>
T_l == <<"-", "l">>
T_u == <<"-", "u">>
T_t == <<"-", "t">>
T_dash == <<"-">>
T_file == <<"f", ".", "j">>
T_hello == <<"h", "e", "l", "l", "o">>
T_x == <<"x">>
T_1 == <<"1">>
T_20 == <<"2", "0">>
T_5 == <<"5">>
T_7y == <<"7", "y">>

(***************************************************************************)
(* atoi / atol / atoll: skip white space, an optional sign, then the       *)
(* longest run of decimal digits; 0 when there is none.  The inputs of the *)
(* model stay far below 2^31, so the three agree and the int/long/uint64   *)
(* conversions at their call sites do not change the value.                *)
(***************************************************************************)
IsDigit(c) == c \in {"0", "1", "2", "3", "4", "5", "6", "7", "8", "9"}

DigitVal(c) ==
    CASE c = "0" -> 0 [] c = "1" -> 1 [] c = "2" -> 2 [] c = "3" -> 3
      [] c = "4" -> 4 [] c = "5" -> 5 [] c = "6" -> 6 [] c = "7" -> 7
      [] c = "8" -> 8 [] c = "9" -> 9

IsSpace(c) == c \in {" ", "\t", "\n"}

RECURSIVE SkipSpace(_, _)
SkipSpace(s, k) ==
    IF k <= Len(s) /\ IsSpace(s[k]) THEN SkipSpace(s, k + 1) ELSE k

RECURSIVE ParseDigits(_, _, _)
ParseDigits(s, k, acc) ==
    IF k <= Len(s) /\ IsDigit(s[k])
    THEN ParseDigits(s, k + 1, 10 * acc + DigitVal(s[k]))
    ELSE acc

atoll(s) ==
    LET k0 == SkipSpace(s, 1)
        neg == k0 <= Len(s) /\ s[k0] = "-"
        k1 == IF k0 <= Len(s) /\ s[k0] \in {"-", "+"} THEN k0 + 1 ELSE k0
        mag == ParseDigits(s, k1, 0)
    IN  IF neg THEN 0 - mag ELSE mag


(***************************************************************************)
(* The filter builder (nostrdb's ndb_filter_* functions).  A filter is the *)
(* list of its closed fields, the field that is open (type 0: none), and   *)
(* the log of the builder calls made on it; every log entry records which  *)
(* field was open when the call was made.                                  *)
(***************************************************************************)
NoField == [type |-> 0, tag |-> "", elems |-> <<>>]

IntElem(v) == [int |-> v, str |-> <<>>]
StrElem(s) == [int |-> 0, str |-> s]

Call(b, op, arg) == Append(b.calls, [op |-> op, arg |-> arg, open |-> b.cur.type])

ndb_filter_init == [fields |-> <<>>, cur |-> NoField, calls |-> <<>>]

\* opens a field; fails, changing nothing, when a field is already open
ndb_filter_start_field(b, kind) ==
    IF b.cur.type # 0
    THEN [b EXCEPT !.calls = Call(b, "start", kind)]
    ELSE [b EXCEPT !.cur = [type |-> kind, tag |-> "", elems |-> <<>>],
                   !.calls = Call(b, "start", kind)]

\* start_field for a TAG field, recording the tag letter
ndb_filter_start_tag_field(b, letter) ==
    IF b.cur.type # 0
    THEN [b EXCEPT !.calls = Call(b, "start", NDB_FILTER_TAGS)]
    ELSE [b EXCEPT !.cur = [type |-> NDB_FILTER_TAGS, tag |-> letter, elems |-> <<>>],
                   !.calls = Call(b, "start", NDB_FILTER_TAGS)]

\* appends to the open field; nothing to append to when no field is open
ndb_filter_add_element(b, el) ==
    IF b.cur.type = 0
    THEN [b EXCEPT !.calls = Call(b, "add", 0)]
    ELSE [b EXCEPT !.cur.elems = Append(@, el),
                   !.calls = Call(b, "add", 0)]

ndb_filter_add_int_element(b, v) == ndb_filter_add_element(b, IntElem(v))

ndb_filter_add_str_element(b, s) == ndb_filter_add_element(b, StrElem(s))

\* closes the open field and appends it to the filter; a no-op when none is open
ndb_filter_end_field(b) ==
    IF b.cur.type = 0
    THEN [b EXCEPT !.calls = Call(b, "end", 0)]
    ELSE [b EXCEPT !.fields = Append(@, b.cur),
                   !.cur = NoField,
                   !.calls = Call(b, "end", 0)]

(***************************************************************************)
(* The four branches of the query token scan.  Each takes the scan state   *)
(* q = [f: the filter, current_field: main's tracker] and the converted    *)
(* value of argv[1], and gives the scan state after the branch.            *)
(***************************************************************************)
\* if (current_field) { ndb_filter_end_field(f); current_field = 0; }
CloseIfTracked(q) ==
    IF q.current_field # 0
    THEN [f |-> ndb_filter_end_field(q.f), current_field |-> 0]
    ELSE q

\* a -k branch that closes and reopens KINDS on every pair
KBranchReopen(q, v) ==
    LET q1 == CloseIfTracked(q)
    IN  [f |-> ndb_filter_add_int_element(
                   ndb_filter_start_field(q1.f, NDB_FILTER_KINDS), v),
         current_field |-> NDB_FILTER_KINDS]

\* a -k branch that opens KINDS on every pair, whatever the tracker says
KBranchAlwaysStart(q, v) ==
    [f |-> ndb_filter_add_int_element(
               ndb_filter_start_field(q.f, NDB_FILTER_KINDS), v),
     current_field |-> NDB_FILTER_KINDS]

KBranch(q, v) ==
    LET f1 == IF q.current_field # NDB_FILTER_KINDS
              THEN ndb_filter_start_field(q.f, NDB_FILTER_KINDS)
              ELSE q.f
    IN  [f |-> ndb_filter_add_int_element(f1, v),
         current_field |-> NDB_FILTER_KINDS]

\* a -l branch that forgets to close the field that is open
LBranchNoClose(q, v) ==
    LET f1 == ndb_filter_start_field(q.f, NDB_FILTER_LIMIT)
        f2 == ndb_filter_add_int_element(f1, v)
    IN  [f |-> ndb_filter_end_field(f2), current_field |-> NDB_FILTER_LIMIT]

LBranch(q, v) ==
    LET q1 == CloseIfTracked(q)
        f1 == ndb_filter_start_field(q1.f, NDB_FILTER_LIMIT)
        f2 == ndb_filter_add_int_element(f1, v)
    IN  [f |-> ndb_filter_end_field(f2), current_field |-> NDB_FILTER_LIMIT]

\* a -u branch that leaves UNTIL open
UBranchNoEnd(q, v) ==
    LET q1 == CloseIfTracked(q)
        f1 == ndb_filter_start_field(q1.f, NDB_FILTER_UNTIL)
    IN  [f |-> ndb_filter_add_int_element(f1, v),
         current_field |-> q1.current_field]

UBranch(q, v) ==
    LET q1 == CloseIfTracked(q)
        f1 == ndb_filter_start_field(q1.f, NDB_FILTER_UNTIL)
        f2 == ndb_filter_add_int_element(f1, v)
    IN  [f |-> ndb_filter_end_field(f2), current_field |-> q1.current_field]

TBranch(q, s) ==
    LET q1 == CloseIfTracked(q)
        f1 == ndb_filter_start_tag_field(q1.f, "t")
        f2 == ndb_filter_add_str_element(f1, s)
    IN  [f |-> ndb_filter_end_field(f2), current_field |-> q1.current_field]

\* the post-scan close that is left out
FinalCloseSkipped(q) == q

\* if (current_field) { ndb_filter_end_field(f); current_field = 0; }  after the scan
FinalClose(q) == CloseIfTracked(q)

(***************************************************************************)
(* The argument lists the model runs main() on.                            *)
(***************************************************************************)
QueryFlags == {T_k, T_l, T_u, T_t}
QueryValues == {T_1, T_20}
Pairs == {<<fl, v>> : fl \in QueryFlags, v \in QueryValues}

RECURSIVE Streams(_)
Streams(n) ==
    IF n = 0 THEN {<<>>}
    ELSE {p \o s : p \in Pairs, s \in Streams(n - 1)}

PairStreams == UNION {Streams(n) : n \in 0..MaxPairs}

\* streams with a token that is no flag at a flag position, or an odd length
OddTokens == {T_x, T_7y, T_k, T_t}
RaggedStreams ==
    {p \o <<o>> \o s : p \in Streams(0) \cup Streams(1), o \in OddTokens,
                       s \in {<<>>, <<T_k, T_1>>, <<T_l, T_20>>}}

RECURSIVE Rep(_, _)
Rep(p, n) == IF n = 0 THEN <<>> ELSE p \o Rep(p, n - 1)

\* streams around the scan's iteration bound
LongStreams ==
    {Rep(<<T_k, T_1>>, n) \o tl :
        n \in {MaxIter - 1, MaxIter, MaxIter + 1},
        tl \in {<<>>, <<T_k, T_20>>, <<T_l, T_20>>}}

QueryStreams == PairStreams \cup RaggedStreams \cup LongStreams

SearchTokens == {T_oldest, T_limit, T_l, T_5, T_hello}

RECURSIVE TokenLists(_)
TokenLists(n) ==
    IF n = 0 THEN {<<>>}
    ELSE {<<t>> \o s : t \in SearchTokens, s \in TokenLists(n - 1)}

SearchStreams == UNION {TokenLists(n) : n \in 0..MaxSearchToks}

SettingsPrefixes ==
    {<<>>, <<T_d, T_dir>>, <<T_skip>>, <<T_d, T_dir, T_skip>>,
     <<T_skip, T_d, T_dir>>, <<T_d>>, <<T_skip, T_skip>>,
     <<T_d, T_dir, T_d, T_dir>>}

BasicCommands ==
    {<<>>, <<T_stat>>, <<T_stat, T_x>>, <<T_import, T_file>>,
     <<T_import, T_dash>>, <<T_import>>, <<T_psk>>, <<T_pkk>>, <<T_ptk>>,
     <<T_x>>, <<T_query>>, <<T_query, T_k, T_1>>, <<T_query, T_k>>,
     <<T_search>>, <<T_search, T_hello>>, <<T_search, T_oldest>>}

ArgLists ==
    {<<T_ndb>> \o pre \o c : pre \in SettingsPrefixes, c \in BasicCommands}
    \cup {<<T_ndb, T_query>> \o s : s \in QueryStreams}
    \cup {<<T_ndb, T_search>> \o s : s \in SearchStreams}

\* the argument lists of the truncation specification: one per command path
TruncArgLists ==
    {<<T_ndb>> \o c : c \in BasicCommands}
    \cup {<<T_ndb, T_skip>>, <<T_ndb, T_d, T_dir, T_stat>>,
          <<T_ndb, T_query, T_k, T_1, T_l, T_20>>,
          <<T_ndb, T_query, T_t, T_1, T_u, T_20>>,
          <<T_ndb, T_query, T_x>>, <<T_ndb, T_query, T_t>>,
          <<T_ndb, T_search, T_limit, T_5, T_hello>>,
          <<T_ndb, T_search, T_oldest, T_hello>>,
          <<T_ndb, T_search, T_limit>>}

MatchCounts == 0..MaxMatch

TruncMatchCounts == {0} \cup ((ResultsLen - 1)..(ResultsLen + MaxExcess))

(***************************************************************************)
(* print_stats() and print_stat_counts().                                  *)
(***************************************************************************)
\* struct ndb_stat_counts, as the store can hand it back: a sub-store's
\* counters, and a kind's counters (a kind with no record can still carry
\* sizes, the report must go by the count alone)
Counts(c, k, v) == [count |-> c, key_size |-> k, value_size |-> v]
DbCounts == {Counts(c, k, k + 1) : c \in {0, 2}, k \in {0, 1}}
KindCounts == {Counts(c, 1, 2) : c \in {0, 3}}

\* struct ndb_stat
Stats ==
    [dbs : [0..(NDB_DBS - 1) -> DbCounts],
     common_kinds : [0..(NDB_CKIND_COUNT - 1) -> KindCounts],
     other_kinds : KindCounts]
EmptyStat ==
    [dbs |-> [d \in 0..(NDB_DBS - 1) |-> Counts(0, 0, 0)],
     common_kinds |-> [d \in 0..(NDB_CKIND_COUNT - 1) |-> Counts(0, 0, 0)],
     other_kinds |-> Counts(0, 0, 0)]

\* ndb_stat_counts_init
ndb_stat_counts_init == Counts(0, 0, 0)

\* printf("%zu\t%zu\t%zu\t%zu\n", count, key_size, value_size, key_size + value_size)
print_stat_counts(counts) ==
    <<counts.count, counts.key_size, counts.value_size,
      counts.key_size + counts.value_size>>

\* one line of the report: a heading, or a name followed by the four counts;
\* ndb_db_name(i) and ndb_kind_name(i) are written as the index i
Heading(text) == [tag |-> text, idx |-> 0, cols |-> <<>>]
Line(tag, idx, counts) ==
    [tag |-> tag, idx |-> idx, cols |-> print_stat_counts(counts)]

\* for (i = 0; i < NDB_DBS; i++) { total += dbs[i]; print name and counts }
RECURSIVE PrintDbs(_, _, _, _)
PrintDbs(st, k, total, out) ==
    IF k < NDB_DBS
    THEN PrintDbs(st, k + 1,
                  Counts(total.count + st.dbs[k].count,
                         total.key_size + st.dbs[k].key_size,
                         total.value_size + st.dbs[k].value_size),
                  Append(out, Line("db", k, st.dbs[k])))
    ELSE Append(out, Line("total", 0, total))

\* a kinds loop that skips nothing
SkipKindNever(c) == c.count < 0

\* if (c->count == 0) continue;
SkipKind(c) == c.count = 0

\* for (i = 0; i < NDB_CKIND_COUNT; i++) { skip or print name and counts }
RECURSIVE PrintKinds(_, _, _)
PrintKinds(st, k, out) ==
    IF k < NDB_CKIND_COUNT
    THEN PrintKinds(st, k + 1,
                    IF SkipKind(st.common_kinds[k])
                    THEN out
                    ELSE Append(out, Line("kind", k, st.common_kinds[k])))
    ELSE out

\* if (stat->other_kinds.count != 0) { print "other" and counts }
PrintOther(st, out) ==
    IF st.other_kinds.count # 0
    THEN Append(out, Line("other", 0, st.other_kinds))
    ELSE out

print_stats(st) ==
    PrintOther(st,
        PrintKinds(st, 0,
            Append(PrintDbs(st, 0, ndb_stat_counts_init,
                            <<Heading("name"), Heading("dbs")>>),
                   Heading("kinds"))))

(***************************************************************************)
(* The state of a run of main().                                           *)
(***************************************************************************)
VARIABLES
    args,           \* the argument vector as passed in, args[1] = argv[0]
    nmatch,         \* how many records of the store match the request
    base,           \* how far main has advanced argv
    argc,           \* main's argc
    pc,             \* where main is
    i,              \* main's loop counter
    cmd,            \* the command branch taken
    ret,            \* main's return value (-1: none yet)
    dir,            \* the database directory
    flags,          \* the configuration flags
    inited,         \* ndb_init has succeeded
    destroyed,      \* number of ndb_destroy calls
    usage_shown,    \* usage() has printed
    search_config,  \* the text search configuration
    query_text,     \* the texts passed to ndb_text_search
    tokens,         \* the tokens after the command, as handed to its scan
    q,              \* the query scan state: the filter and current_field
    submitted,      \* the filters passed to ndb_query
    txn_open,       \* number of transactions that are open
    txn_log,        \* the ndb_begin_query / ndb_end_query calls in order
    call_ok,        \* how the store call ended: "none", "ok" or "failed"
    count,          \* the number of results the store call reported
    nreads,         \* number of result records the print loop has read
    max_read,       \* the highest result index read (-1: none)
    read_closed,    \* a result record was read with no transaction open
    stat,           \* the statistics ndb_stat hands back when it succeeds
    report          \* the lines print_stats has written

vars == <<args, nmatch, base, argc, pc, i, cmd, ret, dir, flags, inited,
          destroyed, usage_shown, search_config, query_text, tokens, q,
          submitted, txn_open, txn_log, call_ok, count, nreads, max_read,
          read_closed, stat, report>>

inputVars == <<args, nmatch>>
ptrVars == <<base, argc>>
settingVars == <<dir, flags>>
storeVars == <<inited, destroyed>>
searchVars == <<search_config, query_text>>
filterVars == <<tokens, q, submitted>>
txnVars == <<txn_open, txn_log>>
resultVars == <<call_ok, count, nreads, max_read, read_closed>>
statVars == <<stat, report>>

Min(a, b) == IF a < b THEN a ELSE b
Max(a, b) == IF a > b THEN a ELSE b

\* the values a read of argv[j] can give
ArgvAt(j) ==
    LET p == base + j + 1
    IN  IF p <= Len(args) THEN {args[p]}
        ELSE IF p = Len(args) + 1 THEN {NULL}
        ELSE {NULL, Junk}

\* the outcomes of atoi/atol/atoll on a token read from argv
ParseOutcomes(t) ==
    IF t = NULL
    THEN {[crash |-> TRUE, val |-> 0], [crash |-> FALSE, val |-> 0]}
    ELSE {[crash |-> FALSE, val |-> atoll(t)]}

\* the process dies on a signal
Crash ==
    /\ pc' = "crashed"
    /\ UNCHANGED <<inputVars, ptrVars, i, cmd, ret, settingVars, storeVars,
                   usage_shown, searchVars, filterVars, txnVars, resultVars>>

\* ndb_default_text_search_config
DefaultSearchConfig == [order |-> "descending", limit |-> DefaultSearchLimit]

InitWith(argLists, matchCounts) ==
    /\ args \in argLists
    /\ nmatch \in matchCounts
    /\ base = 0
    /\ argc = Len(args)
    /\ pc = "start"
    /\ i = 0
    /\ cmd = "none"
    /\ ret = -1
    /\ dir = <<>>
    /\ flags = 0
    /\ inited = FALSE
    /\ destroyed = 0
    /\ usage_shown = FALSE
    /\ search_config = DefaultSearchConfig
    /\ query_text = <<>>
    /\ tokens = <<>>
    /\ q = [f |-> ndb_filter_init, current_field |-> 0]
    /\ submitted = <<>>
    /\ txn_open = 0
    /\ txn_log = <<>>
    /\ call_ok = "none"
    /\ count = 0
    /\ nreads = 0
    /\ max_read = -1
    /\ read_closed = FALSE
    /\ stat \in IF \E k \in 1..Len(args) : args[k] = T_stat
                THEN Stats ELSE {EmptyStat}
    /\ report = <<>>

Init == InitWith(ArgLists, MatchCounts)

InitTrunc == InitWith(TruncArgLists, TruncMatchCounts)

(***************************************************************************)
(* main(): the argument check, the settings scan and ndb_init.             *)
(***************************************************************************)
\* if (argc < 2) return usage();  dir = "."; flags = 0;
CheckArgs ==
    /\ pc = "start"
    /\ IF argc < 2
       THEN /\ usage_shown' = TRUE
            /\ ret' = 1
            /\ pc' = "exit"
            /\ UNCHANGED <<i, settingVars>>
       ELSE /\ dir' = <<".">>
            /\ flags' = 0
            /\ i' = 0
            /\ pc' = "settings"
            /\ UNCHANGED <<ret, usage_shown>>
    /\ UNCHANGED <<inputVars, ptrVars, cmd, storeVars, searchVars, filterVars,
                   txnVars, resultVars>>
    /\ UNCHANGED statVars

\* one iteration of the settings loop
SettingsIter ==
    /\ pc = "settings"
    /\ i < SettingsIters
    /\ \E a1 \in ArgvAt(1), a2 \in ArgvAt(2) :
          IF a1 = NULL
          THEN Crash
          ELSE /\ IF a1 = T_d /\ a2 # NULL
                  THEN /\ dir' = a2
                       /\ base' = base + 2
                       /\ argc' = argc - 2
                       /\ UNCHANGED flags
                  ELSE IF a1 = T_skip
                  THEN /\ flags' = NDB_FLAG_SKIP_NOTE_VERIFY
                       /\ base' = base + 1
                       /\ argc' = argc - 1
                       /\ UNCHANGED dir
                  ELSE UNCHANGED <<settingVars, ptrVars>>
               /\ i' = i + 1
               /\ pc' = IF i + 1 < SettingsIters THEN "settings" ELSE "init"
               /\ UNCHANGED <<inputVars, cmd, ret, storeVars, usage_shown,
                              searchVars, filterVars, txnVars, resultVars>>
    /\ UNCHANGED statVars

\* if (!ndb_init(&ndb, dir, &config)) return 2;
InitStore ==
    /\ pc = "init"
    /\ \E ok \in BOOLEAN :
          IF ok
          THEN /\ inited' = TRUE
               /\ pc' = "dispatch"
               /\ UNCHANGED ret
          ELSE /\ ret' = 2
               /\ pc' = "exit"
               /\ UNCHANGED inited
    /\ UNCHANGED <<inputVars, ptrVars, i, cmd, settingVars, destroyed,
                   usage_shown, searchVars, filterVars, txnVars, resultVars>>
    /\ UNCHANGED statVars

(***************************************************************************)
(* main(): the command dispatch.  Each test reads argv[1] only after its   *)
(* argc test has passed, so argv[1] is a token whenever it is compared.    *)
(***************************************************************************)
IsCommand(n, name) == argc >= 2 /\ n /\ args[base + 2] = name

IsSearch == IsCommand(argc >= 3, T_search)
IsStat == IsCommand(argc = 2, T_stat)
IsQuery == IsCommand(argc >= 3, T_query)
IsImport == IsCommand(argc = 3, T_import)
IsPrintKeys ==
    \/ IsCommand(argc = 2, T_psk)
    \/ IsCommand(argc = 2, T_pkk)
    \/ IsCommand(argc = 2, T_ptk)

\* if (argc >= 3 && !strcmp(argv[1], "search"))
DispatchSearch ==
    /\ pc = "dispatch"
    /\ IsSearch
    /\ cmd' = "search"
    /\ tokens' = SubSeq(args, base + 3, Len(args))
    /\ i' = 0
    /\ pc' = "sscan"
    /\ UNCHANGED <<inputVars, ptrVars, ret, settingVars, storeVars, usage_shown,
                   searchVars, q, submitted, txnVars, resultVars>>
    /\ UNCHANGED statVars

\* else if (argc == 2 && !strcmp(argv[1], "stat"))
DispatchStat ==
    /\ pc = "dispatch"
    /\ IsStat
    /\ cmd' = "stat"
    /\ pc' = "stat"
    /\ UNCHANGED <<inputVars, ptrVars, i, ret, settingVars, storeVars,
                   usage_shown, searchVars, filterVars, txnVars, resultVars>>
    /\ UNCHANGED statVars

\* else if (argc >= 3 && !strcmp(argv[1], "query")): ndb_filter_init(f);
\* argv += 2; argc -= 2; current_field = 0;
DispatchQuery ==
    /\ pc = "dispatch"
    /\ IsQuery
    /\ cmd' = "query"
    /\ q' = [f |-> ndb_filter_init, current_field |-> 0]
    /\ tokens' = SubSeq(args, base + 3, Len(args))
    /\ base' = base + 2
    /\ argc' = argc - 2
    /\ i' = 0
    /\ pc' = "qscan"
    /\ UNCHANGED <<inputVars, ret, settingVars, storeVars, usage_shown,
                   searchVars, submitted, txnVars, resultVars>>
    /\ UNCHANGED statVars

\* else if (argc == 3 && !strcmp(argv[1], "import"))
DispatchImport ==
    /\ pc = "dispatch"
    /\ IsImport
    /\ cmd' = "import"
    /\ pc' = "import"
    /\ UNCHANGED <<inputVars, ptrVars, i, ret, settingVars, storeVars,
                   usage_shown, searchVars, filterVars, txnVars, resultVars>>
    /\ UNCHANGED statVars

\* else if (argc == 2 && !strcmp(argv[1], "print-search-keys")), and the
\* print-kind-keys and print-tag-keys branches, which are alike
DispatchPrintKeys ==
    /\ pc = "dispatch"
    /\ IsPrintKeys
    /\ cmd' = "keys"
    /\ pc' = "begin"
    /\ UNCHANGED <<inputVars, ptrVars, i, ret, settingVars, storeVars,
                   usage_shown, searchVars, filterVars, txnVars, resultVars>>
    /\ UNCHANGED statVars

\* else return usage();
DispatchUsage ==
    /\ pc = "dispatch"
    /\ ~IsSearch /\ ~IsStat /\ ~IsQuery /\ ~IsImport /\ ~IsPrintKeys
    /\ usage_shown' = TRUE
    /\ ret' = 1
    /\ pc' = "exit"
    /\ UNCHANGED <<inputVars, ptrVars, i, cmd, settingVars, storeVars,
                   searchVars, filterVars, txnVars, resultVars>>
    /\ UNCHANGED statVars

(***************************************************************************)
(* The search option scan and the stat and import commands.                *)
(***************************************************************************)
\* an --oldest-first branch that sets the default order again
SetOrderDescending(config) == [config EXCEPT !.order = "descending"]

\* ndb_text_search_config_set_order(&search_config, NDB_ORDER_ASCENDING);
SetOrderAscending(config) == [config EXCEPT !.order = "ascending"]

\* ndb_text_search_config_set_limit(&search_config, limit);
SetLimit(config, n) == [config EXCEPT !.limit = n]

\* a limit branch that steps over the option but not over its value
LimitShiftOne == SearchIters - 1

\* argv += 2; argc -= 2; of the limit branch
LimitShift == 2

\* one iteration of the search option loop
SearchScanIter ==
    /\ pc = "sscan"
    /\ i < SearchIters
    /\ \E a2 \in ArgvAt(2), a3 \in ArgvAt(3) :
          IF a2 = NULL
          THEN Crash
          ELSE IF a2 = T_oldest
          THEN /\ search_config' = SetOrderAscending(search_config)
               /\ base' = base + 1
               /\ argc' = argc - 1
               /\ i' = i + 1
               /\ pc' = IF i + 1 < SearchIters THEN "sscan" ELSE "begin"
               /\ UNCHANGED <<inputVars, cmd, ret, settingVars, storeVars,
                              usage_shown, query_text, filterVars, txnVars,
                              resultVars>>
          ELSE IF a2 \in {T_limit, T_l}
          THEN \E r \in ParseOutcomes(a3) :
                  IF r.crash
                  THEN Crash
                  ELSE /\ search_config' = SetLimit(search_config, r.val)
                       /\ base' = base + LimitShift
                       /\ argc' = argc - LimitShift
                       /\ i' = i + 1
                       /\ pc' = IF i + 1 < SearchIters THEN "sscan" ELSE "begin"
                       /\ UNCHANGED <<inputVars, cmd, ret, settingVars,
                                      storeVars, usage_shown, query_text,
                                      filterVars, txnVars, resultVars>>
          ELSE /\ i' = i + 1
               /\ pc' = IF i + 1 < SearchIters THEN "sscan" ELSE "begin"
               /\ UNCHANGED <<inputVars, ptrVars, cmd, ret, settingVars,
                              storeVars, usage_shown, searchVars, filterVars,
                              txnVars, resultVars>>
    /\ UNCHANGED statVars

\* if (!ndb_stat(ndb, &stat)) return 3;  print_stats(&stat);
Stat ==
    /\ pc = "stat"
    /\ \E ok \in BOOLEAN :
          IF ok
          THEN /\ report' = print_stats(stat)
               /\ pc' = "destroy"
               /\ UNCHANGED ret
          ELSE /\ ret' = 3
               /\ pc' = "exit"
               /\ UNCHANGED report
    /\ UNCHANGED stat
    /\ UNCHANGED <<inputVars, ptrVars, i, cmd, settingVars, storeVars,
                   usage_shown, searchVars, filterVars, txnVars, resultVars>>

\* ndb_process_events_stream, or map_file and ndb_process_events
Import ==
    /\ pc = "import"
    /\ pc' = "destroy"
    /\ UNCHANGED <<inputVars, ptrVars, i, cmd, ret, settingVars, storeVars,
                   usage_shown, searchVars, filterVars, txnVars, resultVars>>
    /\ UNCHANGED statVars

(***************************************************************************)
(* The query token scan.                                                   *)
(***************************************************************************)
\* a branch that steps over the flag only
ConsumeFlagOnly(q1) ==
    /\ q' = q1
    /\ base' = base + 1
    /\ argc' = argc - 1
    /\ i' = i + 1
    /\ UNCHANGED <<inputVars, pc, cmd, ret, settingVars, storeVars,
                   usage_shown, searchVars, tokens, submitted, txnVars,
                   resultVars>>

\* the scan consumed the pair: argv += 2; argc -= 2;
ConsumePair(q1) ==
    /\ q' = q1
    /\ base' = base + 2
    /\ argc' = argc - 2
    /\ i' = i + 1
    /\ UNCHANGED <<inputVars, pc, cmd, ret, settingVars, storeVars,
                   usage_shown, searchVars, tokens, submitted, txnVars,
                   resultVars>>

\* one iteration of for (i = 0; argc && i < 100; i++)
QueryScanIter ==
    /\ pc = "qscan"
    /\ argc # 0
    /\ i < MaxIter
    /\ \E a0 \in ArgvAt(0), a1 \in ArgvAt(1) :
          IF a0 = NULL
          THEN Crash
          ELSE IF a0 \in {T_k, T_l, T_u}
          THEN \E r \in ParseOutcomes(a1) :
                  IF r.crash
                  THEN Crash
                  ELSE ConsumePair(
                           CASE a0 = T_k -> KBranch(q, r.val)
                             [] a0 = T_l -> LBranch(q, r.val)
                             [] a0 = T_u -> UBranch(q, r.val))
          ELSE IF a0 = T_t
          THEN \* ndb_filter_add_str_element on NULL: the builder crashes or
               \* stores the pointer
               \/ a1 = NULL /\ Crash
               \/ ConsumePair(TBranch(q, a1))
          ELSE /\ i' = i + 1
               /\ UNCHANGED <<inputVars, ptrVars, pc, cmd, ret, settingVars,
                              storeVars, usage_shown, searchVars, filterVars,
                              txnVars, resultVars>>
    /\ UNCHANGED statVars

\* the loop has ended; the post-scan close of an open field
QueryScanDone ==
    /\ pc = "qscan"
    /\ ~(argc # 0 /\ i < MaxIter)
    /\ q' = FinalClose(q)
    /\ pc' = "begin"
    /\ UNCHANGED <<inputVars, ptrVars, i, cmd, ret, settingVars, storeVars,
                   usage_shown, searchVars, tokens, submitted, txnVars,
                   resultVars>>
    /\ UNCHANGED statVars

(***************************************************************************)
(* The transaction bracket, the store calls and the print loops.           *)
(***************************************************************************)
\* ndb_begin_query(ndb, &txn);
BeginQuery ==
    /\ pc = "begin"
    /\ txn_open' = txn_open + 1
    /\ txn_log' = Append(txn_log, "begin")
    /\ pc' = "submit"
    /\ UNCHANGED <<inputVars, ptrVars, i, cmd, ret, settingVars, storeVars,
                   usage_shown, searchVars, filterVars, resultVars>>
    /\ UNCHANGED statVars

\* where main goes after the store call reported n results
AfterSubmit(n) == IF n > 0 THEN "print" ELSE "end"

\* the store's text search: at most `limit` of the matching records, none on failure
ndb_text_search(ok, n, config) ==
    IF ok THEN Max(0, Min(n, config.limit)) ELSE 0

\* a capacity argument one past the size of the result buffer
QueryCapacityOff == ResultsLen + 1

\* the capacity argument of ndb_query(&txn, f, 1, results, 10000, &count)
QueryCapacity == 10000

\* the store's filter query: at most `capacity` of the matching records, none on failure
ndb_query(ok, n, capacity) ==
    IF ok THEN Min(n, capacity) ELSE 0

\* ndb_text_search(&txn, argv[2], &results, &search_config);
TextSearch ==
    /\ pc = "submit"
    /\ cmd = "search"
    /\ \E a2 \in ArgvAt(2), ok \in BOOLEAN :
          /\ query_text' = Append(query_text, a2)
          /\ call_ok' = IF ok THEN "ok" ELSE "failed"
          /\ count' = ndb_text_search(ok, nmatch, search_config)
          /\ pc' = AfterSubmit(count')
    /\ i' = 0
    /\ UNCHANGED <<inputVars, ptrVars, cmd, ret, settingVars, storeVars,
                   usage_shown, search_config, filterVars, txnVars, nreads,
                   max_read, read_closed>>
    /\ UNCHANGED statVars

\* a query call that ends the transaction as soon as the store has answered
QueryThenEnd ==
    /\ pc = "submit"
    /\ cmd = "query"
    /\ submitted' = Append(submitted, q.f)
    /\ \E ok \in BOOLEAN :
          /\ call_ok' = IF ok THEN "ok" ELSE "failed"
          /\ count' = ndb_query(ok, nmatch, QueryCapacity)
    /\ txn_open' = txn_open - 1
    /\ txn_log' = Append(txn_log, "end")
    /\ pc' = IF count' > 0 THEN "print" ELSE "destroy"
    /\ i' = 0
    /\ UNCHANGED <<inputVars, ptrVars, cmd, ret, settingVars, storeVars,
                   usage_shown, searchVars, tokens, q, nreads, max_read,
                   read_closed>>
    /\ UNCHANGED statVars

\* a query call that is made again when the store reports a failure
QueryRetried ==
    /\ pc = "submit"
    /\ cmd = "query"
    /\ submitted' = Append(submitted, q.f)
    /\ \E ok \in BOOLEAN :
          /\ call_ok' = IF ok THEN "ok" ELSE "failed"
          /\ count' = ndb_query(ok, nmatch, QueryCapacity)
          /\ pc' = IF ~ok /\ Len(submitted) = 0 THEN "submit" ELSE AfterSubmit(count')
    /\ i' = 0
    /\ UNCHANGED <<inputVars, ptrVars, cmd, ret, settingVars, storeVars,
                   usage_shown, searchVars, tokens, q, txnVars, nreads,
                   max_read, read_closed>>
    /\ UNCHANGED statVars

\* ndb_query(&txn, f, 1, results, 10000, &count);
Query ==
    /\ pc = "submit"
    /\ cmd = "query"
    /\ submitted' = Append(submitted, q.f)
    /\ \E ok \in BOOLEAN :
          /\ call_ok' = IF ok THEN "ok" ELSE "failed"
          /\ count' = ndb_query(ok, nmatch, QueryCapacity)
    /\ pc' = AfterSubmit(count')
    /\ i' = 0
    /\ UNCHANGED <<inputVars, ptrVars, cmd, ret, settingVars, storeVars,
                   usage_shown, searchVars, tokens, q, txnVars, nreads,
                   max_read, read_closed>>
    /\ UNCHANGED statVars

\* ndb_print_search_keys / ndb_print_kind_keys / ndb_print_tag_keys
PrintKeys ==
    /\ pc = "submit"
    /\ cmd = "keys"
    /\ pc' = "end"
    /\ UNCHANGED <<inputVars, ptrVars, i, cmd, ret, settingVars, storeVars,
                   usage_shown, searchVars, filterVars, txnVars, resultVars>>
    /\ UNCHANGED statVars

\* the print loop reads result record i
ReadResult ==
    /\ i < count
    /\ nreads' = nreads + 1
    /\ max_read' = Max(max_read, i)
    /\ read_closed' = (read_closed \/ txn_open = 0)
    /\ i' = i + 1
    /\ pc' = IF i + 1 < count
             THEN "print"
             ELSE IF txn_open > 0 THEN "end" ELSE "destroy"
    /\ UNCHANGED <<inputVars, ptrVars, cmd, ret, settingVars, storeVars,
                   usage_shown, searchVars, filterVars, txnVars, call_ok,
                   count>>

\* ndb_print_text_search_result(&txn, &results.results[i]);
PrintSearchResult ==
    /\ pc = "print"
    /\ cmd = "search"
    /\ ReadResult
    /\ UNCHANGED statVars

\* print_note(results[i].note);
PrintNote ==
    /\ pc = "print"
    /\ cmd = "query"
    /\ ReadResult
    /\ UNCHANGED statVars

\* an ndb_end_query that the print-keys branches leave out
EndQueryNotForKeys ==
    /\ pc = "end"
    /\ txn_open' = IF cmd = "keys" THEN txn_open ELSE txn_open - 1
    /\ txn_log' = IF cmd = "keys" THEN txn_log ELSE Append(txn_log, "end")
    /\ pc' = "destroy"
    /\ UNCHANGED <<inputVars, ptrVars, i, cmd, ret, settingVars, storeVars,
                   usage_shown, searchVars, filterVars, resultVars>>
    /\ UNCHANGED statVars

\* ndb_end_query(&txn);
EndQuery ==
    /\ pc = "end"
    /\ txn_open' = txn_open - 1
    /\ txn_log' = Append(txn_log, "end")
    /\ pc' = "destroy"
    /\ UNCHANGED <<inputVars, ptrVars, i, cmd, ret, settingVars, storeVars,
                   usage_shown, searchVars, filterVars, resultVars>>
    /\ UNCHANGED statVars

\* ndb_destroy(ndb); and main returns 0
Destroy ==
    /\ pc = "destroy"
    /\ destroyed' = destroyed + 1
    /\ ret' = 0
    /\ pc' = "exit"
    /\ UNCHANGED <<inputVars, ptrVars, i, cmd, settingVars, inited,
                   usage_shown, searchVars, filterVars, txnVars, resultVars>>
    /\ UNCHANGED statVars

Next ==
    \/ CheckArgs
    \/ SettingsIter
    \/ InitStore
    \/ DispatchSearch
    \/ DispatchStat
    \/ DispatchQuery
    \/ DispatchImport
    \/ DispatchPrintKeys
    \/ DispatchUsage
    \/ SearchScanIter
    \/ Stat
    \/ Import
    \/ QueryScanIter
    \/ QueryScanDone
    \/ BeginQuery
    \/ TextSearch
    \/ Query
    \/ PrintKeys
    \/ PrintSearchResult
    \/ PrintNote
    \/ EndQuery
    \/ Destroy

Spec == Init /\ [][Next]_vars

\* the same program on argument lists and stores that reach the result capacity
SpecTrunc == InitTrunc /\ [][Next]_vars

(***************************************************************************)
(* Properties of the query command's filter construction.                  *)
(***************************************************************************)
Calls == q.f.calls

StartCalls == {k \in DOMAIN Calls : Calls[k].op = "start"}

\* the filter has been handed to ndb_query
Submitted == Len(submitted) = 1

\* a stream of (flag, value) pairs, every flag one of -k, -l, -u, -t
IsPairStream(ts) ==
    /\ Len(ts) % 2 = 0
    /\ \A k \in 1..Len(ts) : k % 2 = 1 => ts[k] \in QueryFlags

NumPairs(ts) == Len(ts) \div 2

\* the first n tokens of ts
Take(ts, n) == SubSeq(ts, 1, Min(n, Len(ts)))

\* C1: Field exclusivity.  Whatever the token stream, the filter builder
\* never has two fields open at once: every start_field / start_tag_field
\* call is made while no field is open.
C1_FieldExclusivity ==
    \A k \in StartCalls : Calls[k].open = 0

\* a second field was opened after the first one had been closed
C1_Witness ==
    /\ pc = "exit"
    /\ Cardinality(StartCalls) >= 2
    /\ Len(q.f.fields) >= 2
    /\ \E k \in DOMAIN Calls : Calls[k].op = "end" /\ Calls[k].open = NDB_FILTER_KINDS

\* C2: Finalization before submission.  At the moment the filter is handed
\* to ndb_query no field of it is open; a KINDS field that a trailing -k
\* left open has been closed by the close that follows the scan.
C2_ClosedAtSubmission ==
    /\ (pc = "submit" /\ cmd = "query") => q.f.cur.type = 0
    /\ \A k \in DOMAIN submitted : submitted[k].cur.type = 0

\* a filter was submitted whose last field is the KINDS field of a trailing
\* -k, closed by the last builder call
C2_Witness ==
    /\ Submitted
    /\ Len(tokens) >= 2
    /\ tokens[Len(tokens) - 1] = T_k
    /\ LET f == submitted[1]
       IN  /\ Len(f.fields) >= 1
           /\ f.fields[Len(f.fields)].type = NDB_FILTER_KINDS
           /\ f.calls[Len(f.calls)] = [op |-> "end", arg |-> 0, open |-> NDB_FILTER_KINDS]

\* pair j of a pair stream: its flag and its value
FlagOf(ts, j) == ts[2 * j - 1]
ValueOf(ts, j) == ts[2 * j]

\* pair j begins a maximal run of consecutive -k pairs
StartsRun(ts, j) ==
    /\ FlagOf(ts, j) = T_k
    /\ j = 1 \/ FlagOf(ts, j - 1) # T_k

\* the last pair of the run of -k pairs that pair j begins
RunEnd(ts, j) ==
    CHOOSE e \in j..NumPairs(ts) :
        /\ \A m \in j..e : FlagOf(ts, m) = T_k
        /\ e = NumPairs(ts) \/ FlagOf(ts, e + 1) # T_k

\* the r-th smallest member of a set of numbers
Nth(S, r) == CHOOSE j \in S : Cardinality({x \in S : x <= j}) = r

\* the value lists of the maximal runs of consecutive -k pairs of a pair
\* stream, in input order
KindRuns(ts) ==
    LET starts == {j \in 1..NumPairs(ts) : StartsRun(ts, j)}
    IN  [r \in 1..Cardinality(starts) |->
            LET j == Nth(starts, r)
            IN  [m \in 1..(RunEnd(ts, j) - j + 1) |-> atoll(ValueOf(ts, j + m - 1))]]

\* the value lists of the KINDS fields of a filter, in order
KindFieldValues(f) ==
    LET ks == SelectSeq(f.fields, LAMBDA x : x.type = NDB_FILTER_KINDS)
    IN  [j \in 1..Len(ks) |-> [m \in 1..Len(ks[j].elems) |-> ks[j].elems[m].int]]

KindStarts(f) ==
    Cardinality({k \in DOMAIN f.calls :
                    f.calls[k].op = "start" /\ f.calls[k].arg = NDB_FILTER_KINDS})

KindEnds(f) ==
    Cardinality({k \in DOMAIN f.calls :
                    f.calls[k].op = "end" /\ f.calls[k].open = NDB_FILTER_KINDS})

KindsAccumulate(f, ts) ==
    /\ KindFieldValues(f) = KindRuns(ts)
    /\ KindStarts(f) = Len(KindRuns(ts))
    /\ KindEnds(f) = Len(KindRuns(ts))

\* C3 as stated: every run of consecutive -k pairs of the stream, however
\* long the stream, gives exactly one KINDS field holding the run's values in
\* input order, opened by one start_field call and closed by one end_field.
C3_AnyRunAccumulates ==
    (Submitted /\ IsPairStream(tokens)) => KindsAccumulate(submitted[1], tokens)

\* C3 (amended): KINDS accumulation within the scan's iteration bound.  Of a
\* stream of flag/value pairs the scan handles the first 100 pairs; every
\* maximal run of consecutive -k pairs among those gives exactly one KINDS
\* field whose elements are the run's values in input order, opened by one
\* start_field(KINDS) call and closed by one end_field call.
C3_RunsWithinBoundAccumulate ==
    (Submitted /\ IsPairStream(tokens))
        => KindsAccumulate(submitted[1], Take(tokens, 2 * MaxIter))

\* a run of two -k pairs next to another pair gave one KINDS field of two elements
C3_Witness ==
    /\ Submitted
    /\ IsPairStream(tokens)
    /\ KindFieldValues(submitted[1]) = <<(<<1, 20>>)>>
    /\ KindStarts(submitted[1]) = 1
    /\ KindEnds(submitted[1]) = 1
    /\ Len(submitted[1].fields) = 2

\* the calls the builder received in the step
NewCalls == SubSeq(q'.f.calls, Len(q.f.calls) + 1, Len(q'.f.calls))

\* the scan handled a recognised pair in this step
PairStep ==
    /\ pc = "qscan" /\ pc' = "qscan"
    /\ argc >= 1
    /\ argc' = argc - 2

FlagHandled == args[base + 1]

FieldTypeOf(fl) ==
    CASE fl = T_k -> NDB_FILTER_KINDS
      [] fl = T_l -> NDB_FILTER_LIMIT
      [] fl = T_u -> NDB_FILTER_UNTIL
      [] fl = T_t -> NDB_FILTER_TAGS

\* the step opened a field of type ty, put one element in it and closed it;
\* a field that was open before was closed first
SelfClosedStep(ty) ==
    LET n == Len(q'.f.fields)
        m == Len(NewCalls)
    IN  /\ q'.f.cur = NoField
        /\ n >= 1
        /\ q'.f.fields[n].type = ty
        /\ Len(q'.f.fields[n].elems) = 1
        /\ m >= 3
        /\ NewCalls[m - 2] = [op |-> "start", arg |-> ty, open |-> 0]
        /\ NewCalls[m - 1] = [op |-> "add", arg |-> 0, open |-> ty]
        /\ NewCalls[m] = [op |-> "end", arg |-> 0, open |-> ty]
        /\ IF q.f.cur.type # 0
           THEN /\ q'.f.fields = q.f.fields \o <<q.f.cur, q'.f.fields[n]>>
                /\ m = 4
                /\ NewCalls[1] = [op |-> "end", arg |-> 0, open |-> q.f.cur.type]
           ELSE q'.f.fields = Append(q.f.fields, q'.f.fields[n])

\* the step opened a fresh KINDS field with one element and made no end_field call
FreshKindsStep ==
    /\ q'.f.fields = q.f.fields
    /\ q'.f.cur.type = NDB_FILTER_KINDS
    /\ Len(q'.f.cur.elems) = 1
    /\ NewCalls = <<[op |-> "start", arg |-> NDB_FILTER_KINDS, open |-> 0],
                    [op |-> "add", arg |-> 0, open |-> NDB_FILTER_KINDS]>>

\* C4: Self-closing fields.  Each -l, -u or -t pair opens its field, appends
\* exactly one element and closes it within the handling of that pair, after
\* closing a field that was open before; so no field is open after the pair,
\* and a -k handled when no field is open opens a fresh KINDS field with no
\* end_field call.
C4_SelfClosing ==
    [][PairStep =>
          /\ FlagHandled \in {T_l, T_u, T_t} => SelfClosedStep(FieldTypeOf(FlagHandled))
          /\ (FlagHandled = T_k /\ q.f.cur.type = 0) => FreshKindsStep]_vars

\* after -k, -l, -k: the first KINDS field and the LIMIT field are closed and
\* a fresh KINDS field is open
C4_Witness ==
    /\ pc = "qscan"
    /\ Len(q.f.fields) = 2
    /\ q.f.fields[1].type = NDB_FILTER_KINDS
    /\ q.f.fields[2].type = NDB_FILTER_LIMIT
    /\ Len(q.f.fields[2].elems) = 1
    /\ q.f.cur.type = NDB_FILTER_KINDS
    /\ Len(q.f.calls) = 8

\* the reference: the field list a pair stream denotes.  A field begins at
\* every pair that is not a -k pair and at every pair that begins a run of
\* -k pairs.
RefFields(ts) ==
    LET heads == {j \in 1..NumPairs(ts) : FlagOf(ts, j) # T_k \/ StartsRun(ts, j)}
    IN  [r \in 1..Cardinality(heads) |->
            LET j == Nth(heads, r)
            IN  IF FlagOf(ts, j) = T_k
                THEN [type |-> NDB_FILTER_KINDS,
                      tag |-> "",
                      elems |-> [m \in 1..(RunEnd(ts, j) - j + 1) |->
                                    IntElem(atoll(ValueOf(ts, j + m - 1)))]]
                ELSE [type |-> FieldTypeOf(FlagOf(ts, j)),
                      tag |-> IF FlagOf(ts, j) = T_t THEN "t" ELSE "",
                      elems |-> <<IF FlagOf(ts, j) = T_t
                                  THEN StrElem(ValueOf(ts, j))
                                  ELSE IntElem(atoll(ValueOf(ts, j)))>>]]

\* C5: Filter construction matches its reference.  For a stream of at most
\* 100 recognised flag/value pairs the filter handed to the store has as its
\* field list, in input order, one KINDS field per maximal run of -k pairs
\* (holding the run's values in order) and one single-element LIMIT, UNTIL
\* or TAG('t') field per -l, -u or -t pair, and no open field.
C5_MatchesReference ==
    (Submitted /\ IsPairStream(tokens) /\ NumPairs(tokens) <= MaxIter)
        => /\ submitted[1].fields = RefFields(tokens)
           /\ submitted[1].cur = NoField

\* `-k 1 -l 20` was submitted as KINDS = [1] followed by LIMIT = [20]
C5_Witness ==
    /\ Submitted
    /\ tokens = <<T_k, T_1, T_l, T_20>>
    /\ submitted[1].fields =
          <<[type |-> NDB_FILTER_KINDS, tag |-> "", elems |-> <<IntElem(1)>>],
            [type |-> NDB_FILTER_LIMIT, tag |-> "", elems |-> <<IntElem(20)>>]>>

\* main was given the command `query` and nothing after it, and the store opened
BareQuery ==
    /\ inited
    /\ cmd = "none"
    /\ argc = 2
    /\ args[base + 2] = T_query

\* C6: Empty filter.  The command `query` with no further tokens builds a
\* filter with zero fields and submits it to the store; it is a valid query,
\* not an error.
C6_BareQuerySubmitsEmptyFilter ==
    (pc = "exit" /\ BareQuery)
        => /\ Submitted
           /\ submitted[1].fields = <<>>
           /\ ret = 0
           /\ ~usage_shown

\* the stream is a pair stream, one token that is no flag, and a pair stream
UnknownAt(ts, k) ==
    /\ k % 2 = 1
    /\ ts[k] \notin QueryFlags
    /\ IsPairStream(SubSeq(ts, 1, k - 1))
    /\ IsPairStream(SubSeq(ts, k + 1, Len(ts)))

WithoutToken(ts, k) == SubSeq(ts, 1, k - 1) \o SubSeq(ts, k + 1, Len(ts))

\* C7: Tolerated unknown tokens.  An unrecognised token in the query token
\* stream is skipped: it adds no field and raises no error, and the flag/value
\* pairs around it, those that follow it included, are scanned and applied.
C7_UnknownTokenSkipped ==
    \A k \in DOMAIN tokens :
        (pc = "exit" /\ cmd = "query" /\ UnknownAt(tokens, k)
            /\ NumPairs(WithoutToken(tokens, k)) < MaxIter)
            => /\ Submitted
               /\ ret = 0
               /\ submitted[1].fields = RefFields(WithoutToken(tokens, k))

(***************************************************************************)
(* Properties of the transaction bracket and of the result buffer.         *)
(***************************************************************************)
\* the command reports result records
Reports == cmd \in {"search", "query"}

\* C8: Results are read only inside their transaction.  In the search and
\* the query command every read of a result record by the print loop happens
\* after ndb_begin_query and before the matching ndb_end_query, and the
\* transaction is ended only after the last result has been emitted.
C8_ReadsInsideTransaction ==
    /\ ~read_closed
    /\ (pc = "print" /\ Reports) => (txn_open = 1 /\ txn_log = <<"begin">>)
    /\ (Reports /\ Len(txn_log) = 2)
          => (txn_log = <<"begin", "end">> /\ call_ok # "none" /\ nreads = count)
    /\ (Reports /\ nreads > 0) => txn_log[1] = "begin"

\* a query read its two results and then ended the transaction
C8_Witness ==
    /\ cmd = "query"
    /\ count = 2
    /\ nreads = 2
    /\ txn_log = <<"begin", "end">>
    /\ ~read_closed

\* begin and end calls alternate in the log, beginning with a begin
Alternates(log) ==
    \A k \in DOMAIN log : log[k] = IF k % 2 = 1 THEN "begin" ELSE "end"

\* C9: Transactions are a scoped resource.  On every command path
\* ndb_begin_query and ndb_end_query alternate starting with a begin, at most
\* one transaction is open at any instant, and the process never ends with a
\* transaction open.
C9_TransactionsScoped ==
    /\ Alternates(txn_log)
    /\ txn_open \in {0, 1}
    /\ txn_open = (IF Len(txn_log) % 2 = 1 THEN 1 ELSE 0)
    /\ pc \in {"exit", "crashed"} => txn_open = 0

\* a print-keys command has ended with its transaction begun and ended
C9_Witness ==
    /\ pc = "exit"
    /\ cmd = "keys"
    /\ txn_log = <<"begin", "end">>
    /\ txn_open = 0

\* C10: Truncation.  The count ndb_query reports never exceeds the result
\* capacity of 10000; when more records match than the capacity, the count
\* equals the capacity and no error is raised; and the print loop never
\* reads a result slot at an index at or past the capacity.
C10_Truncation ==
    /\ cmd = "query" =>
          /\ count <= ResultsLen
          /\ max_read < ResultsLen
    /\ (cmd = "query" /\ call_ok = "ok" /\ nmatch > ResultsLen)
          => /\ count = ResultsLen
             /\ pc # "crashed"
             /\ pc = "exit" => (ret = 0 /\ nreads = ResultsLen /\ ~usage_shown)

\* the store matched more records than fit, and exactly the capacity was read
C10_Witness ==
    /\ pc = "exit"
    /\ cmd = "query"
    /\ nmatch > ResultsLen
    /\ count = ResultsLen
    /\ nreads = ResultsLen
    /\ max_read = ResultsLen - 1
    /\ ret = 0

\* C11: Submission failure yields zero results.  When ndb_text_search or
\* ndb_query fails, main does not call it again and the count it reports is
\* zero, so the print loop reads no result and emits no result line.
C11_FailureYieldsNoResults ==
    /\ Len(submitted) <= 1
    /\ Len(query_text) <= 1
    /\ call_ok = "failed"
          => /\ count = 0
             /\ nreads = 0
             /\ pc \in {"end", "destroy", "exit"}
             /\ Len(submitted) + Len(query_text) = 1

\* a query whose store call failed although records match ended with nothing read
C11_Witness ==
    /\ pc = "exit"
    /\ cmd = "query"
    /\ call_ok = "failed"
    /\ nmatch > 0
    /\ Len(submitted) = 1
    /\ count = 0
    /\ nreads = 0
    /\ ret = 0

(***************************************************************************)
(* Properties of the usage exits and of the search request.                *)
(***************************************************************************)
\* C12: Usage errors do not touch the store.  Whenever main prints usage (no
\* command, an unknown command, or a known command with the wrong number of
\* arguments) it exits with code 1 without having initialised the store.
C12_UsageBeforeStore ==
    usage_shown => (ret = 1 /\ pc = "exit" /\ ~inited)

IsSearchOption(t) == t \in {T_oldest, T_limit, T_l}

\* the index of the first token of st, from k on, that is no leading option
\* (the value after --limit / -l belongs to the option); Len(st) + 1 or
\* Len(st) + 2 when the options use up the list
RECURSIVE LeadEnd(_, _)
LeadEnd(st, k) ==
    IF k > Len(st) THEN k
    ELSE IF st[k] = T_oldest THEN LeadEnd(st, k + 1)
    ELSE IF st[k] \in {T_limit, T_l} THEN LeadEnd(st, k + 2)
    ELSE k

\* the positions of the first n leading options of st, from k on
RECURSIVE LeadPositions(_, _, _)
LeadPositions(st, k, n) ==
    IF k > Len(st) \/ n = 0 THEN {}
    ELSE IF st[k] = T_oldest THEN {k} \cup LeadPositions(st, k + 1, n - 1)
    ELSE IF st[k] \in {T_limit, T_l} THEN {k} \cup LeadPositions(st, k + 2, n - 1)
    ELSE {}

OldestAt(st) == {k \in LeadPositions(st, 1, Len(st)) : st[k] = T_oldest}
LimitAt(st) == {k \in LeadPositions(st, 1, Len(st)) : st[k] \in {T_limit, T_l}}

\* st follows the synopsis  search [--oldest-first] [--limit N | -l N] <text>
\* with the two options in either order
FollowsSynopsis(st) ==
    /\ Cardinality(OldestAt(st)) <= 1
    /\ Cardinality(LimitAt(st)) <= 1
    /\ LeadEnd(st, 1) <= Len(st)

\* the request the synopsis asks for: a function of which options are
\* present, not of their order
ExpectedOrder(st) == IF OldestAt(st) # {} THEN "ascending" ELSE "descending"
ExpectedLimit(st) ==
    IF LimitAt(st) = {} THEN DefaultSearchLimit
    ELSE atoll(st[(CHOOSE k \in LimitAt(st) : TRUE) + 1])

SearchSubmitted == cmd = "search" /\ Len(query_text) = 1

\* C13: Search option order is irrelevant and the query text is the first
\* non-option token.  For every arrangement of --oldest-first and
\* --limit N / -l N before the query text, the submitted request has the
\* order and the limit that the set of options determines, whichever came
\* first, and its text is the first token that is none of these options.
C13_OptionOrderIrrelevant ==
    (SearchSubmitted /\ FollowsSynopsis(tokens))
        => /\ query_text[1] = tokens[LeadEnd(tokens, 1)]
           /\ ~IsSearchOption(query_text[1])
           /\ search_config.order = ExpectedOrder(tokens)
           /\ search_config.limit = ExpectedLimit(tokens)

C13_Witness ==
    /\ SearchSubmitted
    /\ tokens = <<T_l, T_5, T_oldest, T_hello>>
    /\ query_text = <<T_hello>>
    /\ search_config = [order |-> "ascending", limit |-> 5]

\* C14: Search order default.  The submitted search request is descending
\* unless --oldest-first is among the leading options the scan covers, and
\* then it is ascending; no other token and no other command changes the
\* ordering.
C14_OrderDefault ==
    /\ SearchSubmitted
          => (search_config.order = "ascending"
                 <=> \E k \in LeadPositions(tokens, 1, SearchIters) :
                        tokens[k] = T_oldest)
    /\ search_config.order \in {"ascending", "descending"}
    /\ cmd # "search" => search_config.order = "descending"

C14_Witness ==
    /\ SearchSubmitted
    /\ tokens = <<T_limit, T_5, T_hello, T_oldest>>
    /\ query_text = <<T_hello>>
    /\ search_config.order = "descending"

(***************************************************************************)
(* Properties of the statistics report.                                    *)
(***************************************************************************)
Reported == cmd = "stat" /\ report # <<>>

LinesOf(tag) == SelectSeq(report, LAMBDA l : l.tag = tag)

\* fn[0] + ... + fn[k]
RECURSIVE SumTo(_, _)
SumTo(fn, k) == IF k < 0 THEN 0 ELSE fn[k] + SumTo(fn, k - 1)

DbSum(Field(_)) ==
    SumTo([d \in 0..(NDB_DBS - 1) |-> Field(stat.dbs[d])], NDB_DBS - 1)

DbCount(c) == c.count
DbKeySize(c) == c.key_size
DbValueSize(c) == c.value_size

NonzeroKinds == {k \in 0..(NDB_CKIND_COUNT - 1) : stat.common_kinds[k].count # 0}

\* C15: Stats zero-skip.  The report names every sub-store in index order
\* with its counters, then a total that is the sum of the sub-stores'
\* counters; the kinds section names a kind if and only if its count is
\* nonzero, and the "other" line is there if and only if its count is nonzero.
C15_StatsZeroSkip ==
    Reported =>
        /\ \A d \in 0..(NDB_DBS - 1) :
              report[3 + d] = Line("db", d, stat.dbs[d])
        /\ Len(LinesOf("db")) = NDB_DBS
        /\ report[3 + NDB_DBS] =
              [tag |-> "total", idx |-> 0,
               cols |-> <<DbSum(DbCount), DbSum(DbKeySize), DbSum(DbValueSize),
                          DbSum(DbKeySize) + DbSum(DbValueSize)>>]
        /\ Len(LinesOf("total")) = 1
        /\ report[4 + NDB_DBS] = Heading("kinds")
        /\ \A k \in 0..(NDB_CKIND_COUNT - 1) :
              (\E n \in 1..Len(report) : report[n].tag = "kind" /\ report[n].idx = k)
                 <=> stat.common_kinds[k].count # 0
        /\ Len(LinesOf("kind")) = Cardinality(NonzeroKinds)
        /\ \A n \in 1..Len(report) :
              report[n].tag = "kind"
                 => /\ n > 4 + NDB_DBS
                    /\ report[n] = Line("kind", report[n].idx,
                                        stat.common_kinds[report[n].idx])
                    /\ \A m \in 1..(n - 1) :
                          report[m].tag = "kind" => report[m].idx < report[n].idx
        /\ Len(LinesOf("other")) = IF stat.other_kinds.count # 0 THEN 1 ELSE 0
        /\ stat.other_kinds.count # 0
              => report[Len(report)] = Line("other", 0, stat.other_kinds)

C15_Witness ==
    /\ Reported /\ pc = "exit" /\ ret = 0
    /\ stat.dbs[0].count = 2 /\ stat.dbs[1].key_size = 1
    /\ stat.common_kinds[0].count = 0 /\ stat.common_kinds[1].count = 3
    /\ stat.other_kinds.count = 0
    /\ Len(LinesOf("kind")) = 1 /\ Len(LinesOf("other")) = 0

(***************************************************************************)
(* Properties of the query token scan.                                     *)
(***************************************************************************)
\* one step of the scan: an iteration that moves argv by two or not at all,
\* the end of the loop with the post-scan close, or a fault
ScanStep ==
    \/ pc' = "crashed"
    \/ /\ pc' = "qscan"
       /\ argc # 0 /\ i < MaxIter
       /\ i' = i + 1
       /\ \/ base' = base /\ argc' = argc
          \/ base' = base + 2 /\ argc' = argc - 2
    \/ /\ pc' = "begin"
       /\ argc = 0 \/ i = MaxIter
       /\ i' = i /\ base' = base /\ argc' = argc
       /\ q'.f.cur = NoField

\* C16: Bounded scan.  On every query token stream the scan makes at most
\* MaxIter loop iterations, each of which consumes exactly two tokens or
\* none; when the loop ends the filter is finalized, and it is that filter
\* which is submitted next, once.
C16_BoundedScan ==
    /\ [](pc = "qscan" => (cmd = "query" /\ i \in 0..MaxIter))
    /\ [][pc = "qscan" => ScanStep]_vars
    /\ [][(cmd = "query" /\ pc = "begin") => pc' = "submit" /\ q' = q]_vars
    /\ [][(cmd = "query" /\ pc = "submit")
             => submitted = <<>> /\ submitted' = <<q.f>>]_vars

C16_Witness ==
    /\ cmd = "query" /\ pc = "submit"
    /\ i = MaxIter /\ argc = 2
    /\ Len(tokens) = 2 * (MaxIter + 1)
    /\ q.f.cur = NoField

\* the builder calls that found no field open / a field open when made
EndCallsOnClosed == {n \in 1..Len(Calls) : Calls[n].op = "end" /\ Calls[n].open = 0}

\* C17: The open-field tracker agrees with the builder.  After every
\* processed token pair current_field is nonzero exactly when the builder has
\* a field open, and then it is that field's kind; ndb_filter_end_field is
\* called only with a field open.
C17_TrackerAgrees ==
    (cmd = "query" /\ pc \in {"qscan", "begin", "submit"})
        => /\ q.current_field = q.f.cur.type
           /\ EndCallsOnClosed = {}

\* C18: The query scan never reads past the token stream.  Whenever the scan
\* looks at a token, and whenever it handles a recognised flag, the tokens it
\* reads (argv[0], and argv[1] for a flag) are among the remaining ones; the
\* remaining count never goes below zero and no read faults.
C18_ScanStaysInside ==
    cmd = "query"
        => /\ argc >= 0
           /\ base <= Len(args)
           /\ pc # "crashed"

(***************************************************************************)
(* Properties of the search option scan and of the exits.                  *)
(***************************************************************************)
\* C19: The search query text is always a real token.  On every argument
\* list that reaches the search branch, the token each scan iteration
\* compares (argv[2]) and the token submitted as query text are arguments,
\* never the terminating null pointer or what lies behind it.
C19_QueryTextIsToken ==
    cmd = "search"
        => /\ pc # "crashed"
           /\ pc \in {"sscan", "begin", "submit"} => argc >= 3
           /\ \A n \in 1..Len(query_text) :
                 /\ query_text[n] \notin {NULL, Junk}
                 /\ \E k \in 1..Len(tokens) : query_text[n] = tokens[k]

\* C20: Store release on every exit path.  When main returns after ndb_init
\* succeeded it has called ndb_destroy exactly once, whatever the return
\* value; when ndb_init failed it has never called it.
C20_StoreReleased ==
    /\ pc = "exit" => destroyed = (IF inited THEN 1 ELSE 0)
    /\ destroyed <= 1
    /\ ~inited => destroyed = 0

=============================================================================
